---- MODULE Spec2Model ----
(***************************************************************************)
(* A model of src/snake.py: the Snake, Apple and Game classes and the      *)
(* poll-input / update / draw loop of Game.run.                            *)
(*                                                                         *)
(* Positions are pixel pairs <<x, y>>, directions are the unit vectors of  *)
(* the source.  The board is Cols x Rows cells of CELL_SIZE pixels; the    *)
(* source's board is the instance Cols = 32, Rows = 24.                    *)
(*                                                                         *)
(* Steps.  Apple.spawn is a sampling loop, so one iteration of it is one   *)
(* step; the code before and after the loop belongs to the step that       *)
(* enters, respectively leaves, the loop.  handle_events reads the list    *)
(* pygame.event.get() returned front to back; the model draws each event   *)
(* when the for loop reaches it (the list does not depend on the game).    *)
(***************************************************************************)
EXTENDS Integers, Sequences, FiniteSets

\* ---- bounds of the model ------------------------------------------------
Cols == 3
Rows == 2
MaxEvents == 2
MaxScore == 4

\* ---- game constants (src/snake.py:13-28) --------------------------------
CELL_SIZE == 20
WINDOW_WIDTH == Cols * CELL_SIZE
WINDOW_HEIGHT == Rows * CELL_SIZE

UP == <<0, -1>>
DOWN == <<0, 1>>
LEFT == <<-1, 0>>
RIGHT == <<1, 0>>

Directions == {UP, DOWN, LEFT, RIGHT}

\* handle_events is not in its for loop.
NoEvent == "none"

\* No Snake.move() has run on the current Snake object yet.
NoMove == <<0, 0>>

\* The events handle_events tells apart: the window-close event, a key press
\* (by key), and any other event type.
Keys ==
  {"K_UP", "K_DOWN", "K_LEFT", "K_RIGHT", "K_w", "K_s", "K_a", "K_d",
   "K_SPACE", "K_ESCAPE", "K_OTHER"}

VARIABLES
  body,          \* snake.body: sequence of positions, head first
  direction,     \* snake.direction
  grow,          \* snake.grow
  position,      \* apple.position
  score,         \* game.score
  game_over,     \* game.game_over
  running,       \* the local `running` of Game.run
  pc,            \* where Game.run is
  nevents,       \* events of this frame's list already handled
  event,         \* the loop variable `event` of handle_events
  last_heading,  \* the direction the latest move() of this Snake used
  idle_ticks     \* move() calls of this Snake since the last directional key

vars ==
  <<body, direction, grow, position, score, game_over, running, pc, nevents,
    event, last_heading, idle_ticks>>

\* ---- Snake --------------------------------------------------------------

StartCoordUnrounded(extent) == extent \div 2

\* start_x, start_y of Snake.reset, for a board extent in pixels
StartCoord(extent) == ((extent \div 2) \div CELL_SIZE) * CELL_SIZE

StartCell == <<StartCoord(WINDOW_WIDTH), StartCoord(WINDOW_HEIGHT)>>

MoveAlwaysPops(b, d, g) ==
  LET new_head == <<b[1][1] + d[1] * CELL_SIZE, b[1][2] + d[2] * CELL_SIZE>>
  IN  [body |-> SubSeq(<<new_head>> \o b, 1, Len(b)), grow |-> FALSE]

MoveUnscaled(b, d, g) ==
  LET new_head == <<b[1][1] + d[1], b[1][2] + d[2]>>
      inserted == <<new_head>> \o b
  IN  [body |-> IF ~g THEN SubSeq(inserted, 1, Len(inserted) - 1) ELSE inserted,
       grow |-> FALSE]

\* Snake.move
Move(b, d, g) ==
  LET new_head == <<b[1][1] + d[1] * CELL_SIZE, b[1][2] + d[2] * CELL_SIZE>>
      inserted == <<new_head>> \o b
  IN  [body |-> IF ~g THEN SubSeq(inserted, 1, Len(inserted) - 1) ELSE inserted,
       grow |-> FALSE]

ChangeDirectionAlways(d, new_direction) == new_direction

\* Snake.change_direction: the new value of snake.direction
ChangeDirection(d, new_direction) ==
  LET opposite == <<-d[1], -d[2]>>
  IN  IF new_direction # opposite THEN new_direction ELSE d

CheckCollisionPastEdge(b) ==
  LET head == b[1]
  IN  \/ head[1] < 0
      \/ head[1] > WINDOW_WIDTH
      \/ head[2] < 0
      \/ head[2] > WINDOW_HEIGHT
      \/ \E i \in 2..Len(b) : b[i] = head

CheckCollisionWholeBody(b) ==
  LET head == b[1]
  IN  \/ head[1] < 0
      \/ head[1] >= WINDOW_WIDTH
      \/ head[2] < 0
      \/ head[2] >= WINDOW_HEIGHT
      \/ \E i \in 1..Len(b) : b[i] = head

CheckCollisionWallsOnly(b) ==
  LET head == b[1]
  IN  \/ head[1] < 0
      \/ head[1] >= WINDOW_WIDTH
      \/ head[2] < 0
      \/ head[2] >= WINDOW_HEIGHT

\* Snake.check_collision
CheckCollision(b) ==
  LET head == b[1]
  IN  \/ head[1] < 0
      \/ head[1] >= WINDOW_WIDTH
      \/ head[2] < 0
      \/ head[2] >= WINDOW_HEIGHT
      \/ \E i \in 2..Len(b) : b[i] = head

\* ---- Apple --------------------------------------------------------------

SamplesPastEdge ==
  {<<x * CELL_SIZE, y * CELL_SIZE>> :
     x \in 0..(WINDOW_WIDTH \div CELL_SIZE),
     y \in 0..(WINDOW_HEIGHT \div CELL_SIZE)}

SamplesShort ==
  {<<x * CELL_SIZE, y * CELL_SIZE>> :
     x \in 0..(((WINDOW_WIDTH - CELL_SIZE) \div CELL_SIZE) - 1),
     y \in 0..(((WINDOW_HEIGHT - CELL_SIZE) \div CELL_SIZE) - 1)}

SamplesUnscaled ==
  {<<x, y>> :
     x \in 0..((WINDOW_WIDTH - CELL_SIZE) \div CELL_SIZE),
     y \in 0..((WINDOW_HEIGHT - CELL_SIZE) \div CELL_SIZE)}

\* the positions one iteration of Apple.spawn can sample
Samples ==
  {<<x * CELL_SIZE, y * CELL_SIZE>> :
     x \in 0..((WINDOW_WIDTH - CELL_SIZE) \div CELL_SIZE),
     y \in 0..((WINDOW_HEIGHT - CELL_SIZE) \div CELL_SIZE)}

NotInNothing(p, snake_body) == TRUE

\* `self.position not in snake_body`
NotIn(p, snake_body) == \A i \in 1..Len(snake_body) : snake_body[i] # p

\* ---- Game ---------------------------------------------------------------

\* Game.__init__ -> Game.reset, completed; Game.run is about to poll input.
Init ==
  /\ body = <<StartCell>>
  /\ direction = RIGHT
  /\ grow = FALSE
  /\ position \in {p \in Samples : NotIn(p, <<StartCell>>)}
  /\ score = 0
  /\ game_over = FALSE
  /\ running = TRUE
  /\ pc = "handle_events"
  /\ nevents = 0
  /\ event = NoEvent
  /\ last_heading = NoMove
  /\ idle_ticks = 0

\* The key-to-direction mapping of handle_events
KeyDirection(key) ==
  CASE key \in {"K_UP", "K_w"} -> UP
    [] key \in {"K_DOWN", "K_s"} -> DOWN
    [] key \in {"K_LEFT", "K_a"} -> LEFT
    [] key \in {"K_RIGHT", "K_d"} -> RIGHT

DirectionKeys == {"K_UP", "K_DOWN", "K_LEFT", "K_RIGHT", "K_w", "K_s", "K_a", "K_d"}

\* handle_events, `return False` out of the for loop
ReturnFalse ==
  /\ running' = FALSE
  /\ pc' = "update"
  /\ nevents' = 0
  /\ event' = NoEvent
  /\ UNCHANGED <<body, direction, grow, position, score, game_over, last_heading, idle_ticks>>

\* handle_events, an event without effect: the for loop takes the next one
NextEvent ==
  /\ nevents' = nevents + 1
  /\ UNCHANGED <<body, direction, grow, position, score, game_over, running, pc,
                 last_heading, idle_ticks>>

\* handle_events, event.type == pygame.QUIT: return False
EventQuit ==
  /\ pc = "handle_events"
  /\ nevents < MaxEvents
  /\ ReturnFalse

\* handle_events, an event that is neither QUIT nor KEYDOWN: next event
EventOther ==
  /\ pc = "handle_events"
  /\ nevents < MaxEvents
  /\ event' = "OTHER"
  /\ NextEvent

\* Game.reset up to the call self.apple.spawn(self.snake.body): Snake(), and
\* Apple() with the one sample its spawn() takes (nothing is occupied).
ResetBegin ==
  /\ body' = <<StartCell>>
  /\ direction' = RIGHT
  /\ grow' = FALSE
  /\ last_heading' = NoMove
  /\ idle_ticks' = 0
  /\ position' \in Samples
  /\ pc' = "reset_spawn"
  /\ nevents' = nevents + 1
  /\ UNCHANGED <<score, game_over, running>>

\* handle_events, the KEYDOWN branch taken while self.game_over
KeyDownGameOver(key) ==
  IF key = "K_SPACE"
    THEN event' = key /\ ResetBegin
    ELSE IF key = "K_ESCAPE"
           THEN ReturnFalse
           ELSE event' = key /\ NextEvent

KeyDownPlayingRestarts(key) ==
  IF key \in DirectionKeys
    THEN /\ event' = key
         /\ direction' = ChangeDirection(direction, KeyDirection(key))
         /\ nevents' = nevents + 1
         /\ idle_ticks' = 0
         /\ UNCHANGED <<body, grow, position, score, game_over, running, pc,
                        last_heading>>
    ELSE IF key = "K_ESCAPE"
           THEN ReturnFalse
           ELSE IF key = "K_SPACE"
                  THEN event' = key /\ ResetBegin
                  ELSE event' = key /\ NextEvent

\* handle_events, the KEYDOWN branch taken while not self.game_over
KeyDownPlaying(key) ==
  IF key \in DirectionKeys
    THEN /\ event' = key
         /\ direction' = ChangeDirection(direction, KeyDirection(key))
         /\ nevents' = nevents + 1
         /\ idle_ticks' = 0
         /\ UNCHANGED <<body, grow, position, score, game_over, running, pc,
                        last_heading>>
    ELSE IF key = "K_ESCAPE"
           THEN ReturnFalse
           ELSE event' = key /\ NextEvent

\* handle_events, event.type == pygame.KEYDOWN with event.key == key
KeyDown(key) ==
  /\ pc = "handle_events"
  /\ nevents < MaxEvents
  /\ IF game_over THEN KeyDownGameOver(key) ELSE KeyDownPlaying(key)

\* handle_events, the event list is exhausted: return True
EventsDone ==
  /\ pc = "handle_events"
  /\ running' = TRUE
  /\ pc' = "update"
  /\ nevents' = 0
  /\ event' = NoEvent
  /\ UNCHANGED <<body, direction, grow, position, score, game_over, last_heading, idle_ticks>>

ResetSpawnKeepsScore ==
  /\ pc = "reset_spawn"
  /\ position' \in Samples
  /\ IF NotIn(position', body)
       THEN /\ game_over' = FALSE
            /\ pc' = "handle_events"
       ELSE UNCHANGED <<game_over, pc>>
  /\ UNCHANGED <<body, direction, grow, score, running, nevents, event, last_heading, idle_ticks>>

\* Game.reset, one iteration of the loop of self.apple.spawn(self.snake.body);
\* when the loop breaks, reset finishes and handle_events goes on.
ResetSpawn ==
  /\ pc = "reset_spawn"
  /\ position' \in Samples
  /\ IF NotIn(position', body)
       THEN /\ score' = 0
            /\ game_over' = FALSE
            /\ pc' = "handle_events"
       ELSE UNCHANGED <<score, game_over, pc>>
  /\ UNCHANGED <<body, direction, grow, running, nevents, event, last_heading, idle_ticks>>

UpdateGameOverMoves ==
  /\ pc = "update"
  /\ game_over
  /\ body' = Move(body, direction, grow).body
  /\ pc' = "draw"
  /\ UNCHANGED <<direction, grow, position, score, game_over, running,
                 nevents, event, last_heading, idle_ticks>>

\* Game.update while game_over: return
UpdateGameOver ==
  /\ pc = "update"
  /\ game_over
  /\ pc' = "draw"
  /\ UNCHANGED <<body, direction, grow, position, score, game_over, running,
                 nevents, event, last_heading, idle_ticks>>

UpdateMoveNoScore ==
  /\ pc = "update"
  /\ ~game_over
  /\ LET moved == Move(body, direction, grow)
     IN  /\ body' = moved.body
         /\ last_heading' = direction
         /\ IF moved.body[1] = position
              THEN /\ grow' = TRUE
                   /\ pc' = "update_spawn"
                   /\ UNCHANGED <<position, score, game_over>>
              ELSE /\ grow' = moved.grow
                   /\ game_over' = CheckCollision(moved.body)
                   /\ pc' = "draw"
                   /\ UNCHANGED <<position, score>>
  /\ idle_ticks' = idle_ticks + 1
  /\ UNCHANGED <<direction, running, nevents, event>>

UpdateMoveChecksFirst ==
  /\ pc = "update"
  /\ ~game_over
  /\ LET moved == Move(body, direction, grow)
     IN  /\ body' = moved.body
         /\ last_heading' = direction
         /\ IF moved.body[1] = position
              THEN /\ score < MaxScore
                   /\ grow' = TRUE
                   /\ score' = score + 1
                   /\ pc' = "update_spawn"
                   /\ UNCHANGED <<position, game_over>>
              ELSE /\ grow' = moved.grow
                   /\ game_over' = CheckCollision(body)
                   /\ pc' = "draw"
                   /\ UNCHANGED <<position, score>>
  /\ idle_ticks' = idle_ticks + 1
  /\ UNCHANGED <<direction, running, nevents, event>>

\* Game.update while playing: snake.move(), the apple test and, when no apple
\* is eaten, check_collision; an eaten apple enters the loop of apple.spawn.
UpdateMove ==
  /\ pc = "update"
  /\ ~game_over
  /\ LET moved == Move(body, direction, grow)
     IN  /\ body' = moved.body
         /\ last_heading' = direction
         /\ IF moved.body[1] = position
              THEN /\ score < MaxScore
                   /\ grow' = TRUE
                   /\ score' = score + 1
                   /\ pc' = "update_spawn"
                   /\ UNCHANGED <<position, game_over>>
              ELSE /\ grow' = moved.grow
                   /\ game_over' = CheckCollision(moved.body)
                   /\ pc' = "draw"
                   /\ UNCHANGED <<position, score>>
  /\ idle_ticks' = idle_ticks + 1
  /\ UNCHANGED <<direction, running, nevents, event>>

\* Game.update, one iteration of the loop of self.apple.spawn(self.snake.body);
\* when the loop breaks, check_collision ends the update.
UpdateSpawn ==
  /\ pc = "update_spawn"
  /\ position' \in Samples
  /\ IF NotIn(position', body)
       THEN /\ game_over' = CheckCollision(body)
            /\ pc' = "draw"
       ELSE UNCHANGED <<game_over, pc>>
  /\ UNCHANGED <<body, direction, grow, score, running, nevents, event, last_heading, idle_ticks>>

\* Game.run: draw(), clock.tick(FPS) and the test of `while running`
Draw ==
  /\ pc = "draw"
  /\ pc' = IF running THEN "handle_events" ELSE "exit"
  /\ UNCHANGED <<body, direction, grow, position, score, game_over, running,
                 nevents, event, last_heading, idle_ticks>>

Next ==
  \/ EventQuit
  \/ EventOther
  \/ \E key \in Keys : KeyDown(key)
  \/ EventsDone
  \/ ResetSpawn
  \/ UpdateGameOver
  \/ UpdateMove
  \/ UpdateSpawn
  \/ Draw

Spec == Init /\ [][Next]_vars

\* ---- Apple.spawn on its own ----------------------------------------------
\* Apple.spawn(snake_body) called with any list of board cells: `body` holds
\* the argument, `position` the apple's position before the call.

\* the i-th cell of the board, row by row
CellAt(i) == <<((i - 1) % Cols) * CELL_SIZE, ((i - 1) \div Cols) * CELL_SIZE>>

BoardCells == {CellAt(i) : i \in 1..(Cols * Rows)}

RECURSIVE OccupiedList(_)
\* the cells numbered in S, as a list
OccupiedList(S) ==
  IF S = {}
    THEN <<>>
    ELSE LET m == CHOOSE m \in S : \A n \in S : m <= n
         IN  <<CellAt(m)>> \o OccupiedList(S \ {m})

SpawnInit ==
  /\ body \in {OccupiedList(S) : S \in SUBSET (1..(Cols * Rows))}
  /\ position \in Samples
  /\ pc = "spawn"
  /\ direction = RIGHT
  /\ grow = FALSE
  /\ score = 0
  /\ game_over = FALSE
  /\ running = TRUE
  /\ nevents = 0
  /\ event = NoEvent
  /\ last_heading = NoMove
  /\ idle_ticks = 0

\* Apple.spawn, one iteration of `while True`
SpawnStep ==
  /\ pc = "spawn"
  /\ position' \in Samples
  /\ pc' = IF NotIn(position', body) THEN "spawned" ELSE "spawn"
  /\ UNCHANGED <<body, direction, grow, score, game_over, running, nevents,
                 event, last_heading, idle_ticks>>

SpawnSpec == SpawnInit /\ [][SpawnStep]_vars

\* fair sampling: every position that can be sampled is sampled sooner or
\* later, so an iteration that samples a free position, while there is one,
\* comes sooner or later.  Only this consequence is assumed.
SpawnFairSpec == SpawnSpec /\ WF_vars(SpawnStep /\ pc' = "spawned")

\* ---- properties ---------------------------------------------------------

\* the cells of the snake
BodyCells == {body[i] : i \in 1..Len(body)}

\* the game state the claims speak of
game == <<body, direction, grow, position, score, game_over>>

\* the opposite heading, as a table
Reverse(d) ==
  CASE d = UP -> DOWN
    [] d = DOWN -> UP
    [] d = LEFT -> RIGHT
    [] d = RIGHT -> LEFT

\* a Playing tick is about to call snake.move()
AboutToMove == pc = "update" /\ ~game_over

\* C1: no two consecutive moves of the snake are in opposite directions: when
\* move() is about to run, its heading is not the reverse of the heading the
\* previous move() used.
C1_NoReversal ==
  (AboutToMove /\ last_heading # NoMove) => direction # Reverse(last_heading)

\* C2: after Game.reset and at the end of every Game.update (that is, whenever
\* no Apple.spawn loop is running) the apple is on no cell of the snake.
C2_AppleOffSnake ==
  pc \notin {"reset_spawn", "update_spawn"} => position \notin BodyCells

\* an apple was eaten and relocated, and the tick is over
C2_Witness == pc = "draw" /\ score >= 2 /\ Len(body) >= 2 /\ grow

\* C3: in GameOver every step but the restart (ticks and key events included)
\* leaves body, heading, growth flag, apple, score and game-over flag as
\* they are.
C3_GameOverFrozen ==
  [][(game_over /\ pc # "reset_spawn" /\ pc' # "reset_spawn") => UNCHANGED game]_vars

\* a directional key was handled in GameOver, after a tick in GameOver
C3_Witness ==
  game_over /\ pc = "handle_events" /\ event \in DirectionKeys /\ score >= 1

\* C4: once a quit input is received (running is False) no further update
\* happens: body, apple, score and game-over flag stay as they are.
C4_QuitFreezes ==
  [][~running => UNCHANGED <<body, position, score, game_over>>]_vars

\* C5: Snake.move() puts the new head in front of the old body, drops the last
\* cell exactly when the growth flag was false, and leaves the flag cleared:
\* the length grows by one when the flag was set and is unchanged otherwise.
C5_MoveLength ==
  [][AboutToMove =>
       LET m == Move(body, direction, grow) IN
       /\ m.grow = FALSE
       /\ body' = m.body
       /\ Len(body') = Len(body) + (IF grow THEN 1 ELSE 0)
       /\ body'[1] = <<body[1][1] + direction[1] * CELL_SIZE,
                       body[1][2] + direction[2] * CELL_SIZE>>
       /\ \A i \in 2..Len(body') : body'[i] = body[i - 1]
       /\ (grow' => body'[1] = position)]_vars

\* a move with the growth flag set has run: the snake is longer than one cell
C5_Witness == pc = "draw" /\ Len(body) = 3 /\ ~grow /\ ~game_over

\* C6: a Playing tick adds exactly 1 to the score if the head after the move
\* is on the apple and nothing otherwise; the eating tick sets the growth flag
\* and ends with the apple on another cell, off the snake; the length grows by
\* one in the next move and not in the eating tick; no other tick changes
\* score or apple; the score is never negative.
C6_ScorePerApple ==
  [][/\ AboutToMove =>
          LET eats == body'[1] = position IN
          /\ score' = score + (IF eats THEN 1 ELSE 0)
          /\ eats => /\ grow'
                     /\ pc' = "update_spawn"
                     /\ Len(body') = Len(body) + (IF grow THEN 1 ELSE 0)
          /\ ~eats => position' = position /\ ~grow' /\ pc' = "draw"
     /\ pc = "update_spawn" =>
          /\ grow
          /\ UNCHANGED <<body, grow, score>>
          /\ pc' = "draw" => position' \notin BodyCells /\ position' # position
     /\ (grow /\ pc \in {"draw", "handle_events"}) => grow'
     /\ (AboutToMove /\ grow) => Len(body') = Len(body) + 1
     /\ (pc = "update" /\ game_over) => UNCHANGED <<score, position>>
     /\ score' >= 0]_vars

\* the first apple has been eaten: the score is 1, the snake is still one cell
C6_Witness == pc = "draw" /\ grow /\ score = 1 /\ Len(body) = 1

\* the collision rule, stated on a body
Hit(b) ==
  \/ b[1][1] \notin 0..(WINDOW_WIDTH - 1)
  \/ b[1][2] \notin 0..(WINDOW_HEIGHT - 1)
  \/ b[1] \in {b[i] : i \in 2..Len(b)}

\* C7: a Playing tick moves first, tests the apple against the moved head,
\* then tests the collision on the moved body; the tick ends in GameOver
\* exactly when the moved body collides, and in Playing otherwise.
C7_TickOrder ==
  [][/\ AboutToMove =>
          /\ body' = Move(body, direction, grow).body
          /\ (pc' = "update_spawn") = (body'[1] = position)
          /\ pc' = "draw" => (game_over' = Hit(body'))
          /\ pc' = "update_spawn" => ~game_over'
     /\ (pc = "update_spawn" /\ pc' = "draw") =>
          body' = body /\ game_over' = Hit(body')]_vars

\* a tick has ended in GameOver with the head on the board: a self-collision
C7_Witness == pc = "draw" /\ game_over /\ body[1] \in Samples /\ running

\* `c` is the board centre rounded down to a cell boundary
CentreCell(c) ==
  /\ c[1] % CELL_SIZE = 0
  /\ c[2] % CELL_SIZE = 0
  /\ 2 * c[1] <= WINDOW_WIDTH /\ WINDOW_WIDTH < 2 * (c[1] + CELL_SIZE)
  /\ 2 * c[2] <= WINDOW_HEIGHT /\ WINDOW_HEIGHT < 2 * (c[2] + CELL_SIZE)

\* C8: when Game.reset returns, the body is the single centre cell (rounded
\* down to a cell boundary; (320, 240) for 640x480), the heading is right, the
\* growth flag is false, the score is 0, the game-over flag is false and the
\* apple is off the snake, whatever the state before.
C8_RestartReinitializes ==
  [][(pc = "reset_spawn" /\ pc' # "reset_spawn") =>
       /\ Len(body') = 1
       /\ CentreCell(body'[1])
       /\ <<StartCoord(640), StartCoord(480)>> = <<320, 240>>
       /\ direction' = RIGHT
       /\ ~grow'
       /\ score' = 0
       /\ ~game_over'
       /\ position' # body'[1]
       /\ position' \in Samples
       /\ pc' = "handle_events"]_vars

\* a restart is under way from a finished game with a score: the new snake is
\* in place and the first apple sample fell on it
C8_Witness ==
  pc = "reset_spawn" /\ game_over /\ score >= 1 /\ body = <<position>>

\* C9: a Space key while Playing changes nothing; a reset begins only on Space
\* in GameOver, and the game-over flag is cleared only by that reset.
C9_RestartOnlyInGameOver ==
  [][/\ (~game_over /\ pc = "handle_events" /\ event' = "K_SPACE") =>
          UNCHANGED <<game, running, pc>>
     /\ (pc # "reset_spawn" /\ pc' = "reset_spawn") =>
          game_over /\ event' = "K_SPACE"
     /\ (game_over /\ ~game_over') => pc = "reset_spawn"]_vars

\* Space was handled in the middle of a game that goes on
C9_Witness ==
  /\ pc = "handle_events" /\ event = "K_SPACE" /\ ~game_over
  /\ score >= 1 /\ last_heading # NoMove

\* C10: change_direction(d) keeps the heading when d is the reverse of the
\* heading and sets it to d otherwise; it changes neither body nor growth
\* flag, and the event loop goes on.
C10_ChangeDirection ==
  [][\A key \in DirectionKeys :
       (~game_over /\ pc = "handle_events" /\ event' = key) =>
         /\ direction' = IF KeyDirection(key) = Reverse(direction)
                           THEN direction
                           ELSE KeyDirection(key)
         /\ ChangeDirection(RIGHT, LEFT) = RIGHT
         /\ UNCHANGED <<body, grow, running, pc>>]_vars

\* heading right, Left was pressed, the heading is still right
C10_Witness ==
  /\ pc = "handle_events" /\ event = "K_LEFT" /\ ~game_over
  /\ direction = RIGHT /\ last_heading = RIGHT

\* C11: check_collision is true exactly when the head's x is outside
\* [0, boardWidth), or its y is outside [0, boardHeight), or the head is one of
\* the segments behind it; it is false for a freshly reset snake.
C11_CheckCollision ==
  /\ CheckCollision(body) = Hit(body)
  /\ body = <<StartCell>> => ~CheckCollision(body)
  /\ ~CheckCollision(<<StartCell>>)

\* the head has just left the board over the right edge: x = boardWidth
C11_Witness == pc = "draw" /\ game_over /\ body[1][1] = WINDOW_WIDTH

\* C12: whatever direction changes came before it, a move puts the head exactly
\* one cell from the old head in the current heading: one coordinate changes
\* by the cell size, the other stays.
C12_HeadAdvances ==
  [][AboutToMove =>
       LET dx == body'[1][1] - body[1][1]
           dy == body'[1][2] - body[1][2]
       IN  /\ <<dx, dy>> = <<direction[1] * CELL_SIZE, direction[2] * CELL_SIZE>>
           /\ \/ dx = 0 /\ dy \in {-CELL_SIZE, CELL_SIZE}
              \/ dy = 0 /\ dx \in {-CELL_SIZE, CELL_SIZE}
           /\ direction' = direction]_vars

\* a move went up right after Up was pressed while heading sideways
C12_Witness ==
  /\ pc = "draw" /\ ~game_over /\ last_heading = UP
  /\ Len(body) >= 2 /\ body[1][2] = body[2][2] - CELL_SIZE

\* C13: for every occupied list that leaves a board cell free, the position
\* Apple.spawn ends with is not in the list, has both coordinates multiples
\* of the cell size and lies on the board.
C13_SpawnResult ==
  pc = "spawned" =>
    /\ \A i \in 1..Len(body) : body[i] # position
    /\ position[1] % CELL_SIZE = 0
    /\ position[2] % CELL_SIZE = 0
    /\ position[1] >= 0 /\ position[1] < WINDOW_WIDTH
    /\ position[2] >= 0 /\ position[2] < WINDOW_HEIGHT

\* spawn has returned with all cells but one occupied
C13_Witness == pc = "spawned" /\ Len(body) = Cols * Rows - 1

\* some cell of the board is not in the list given to spawn
HasFree == \E p \in BoardCells : \A i \in 1..Len(body) : body[i] # p

\* C14: under fair sampling Apple.spawn returns whenever a board cell is free;
\* on a fully occupied board the loop never exits.
C14_SpawnTerminates ==
  /\ HasFree ~> (pc = "spawned")
  /\ [](~HasFree => pc = "spawn")

\* spawn has returned on the only free cell, the last one of the board
C14_Witness ==
  /\ pc = "spawned"
  /\ body = OccupiedList(1..(Cols * Rows - 1))
  /\ position = CellAt(Cols * Rows)

\* both coordinates of p are multiples of the cell size
Aligned(p) == p[1] % CELL_SIZE = 0 /\ p[2] % CELL_SIZE = 0

\* p lies on the board
OnBoard(p) ==
  /\ 0 <= p[1] /\ p[1] < WINDOW_WIDTH
  /\ 0 <= p[2] /\ p[2] < WINDOW_HEIGHT

\* C15: in every reachable state every snake cell and the apple have both
\* coordinates multiples of the cell size, and the apple is on the board.
C15_GridAligned ==
  /\ \A i \in 1..Len(body) : Aligned(body[i])
  /\ Aligned(position)
  /\ OnBoard(position)

\* a snake of two or more cells with its head off the board, left of column 0
C15_Witness == game_over /\ Len(body) >= 2 /\ body[1][1] = -CELL_SIZE

\* C16: the tick that eats an apple does not collide: while the apple is
\* being relocated the moved body is collision-free and the game is Playing;
\* so no tick both scores and enters GameOver, and the growth flag is false
\* in GameOver.
C16_NoEatAndCollide ==
  /\ pc = "update_spawn" => ~Hit(body) /\ ~game_over /\ grow
  /\ game_over => ~grow

\* an apple has just been eaten by a snake of four cells
C16_Witness == pc = "update_spawn" /\ Len(body) = 4 /\ score = 4

\* C17: outside a reset in progress the body length is
\* 1 + score - (1 if growth is pending, else 0).
C17_LengthIsScore ==
  pc # "reset_spawn" => Len(body) = 1 + score - (IF grow THEN 1 ELSE 0)

\* three apples eaten and all three grown in, at the start of a frame
C17_Witness ==
  pc = "handle_events" /\ nevents = 0 /\ score = 3 /\ ~grow /\ ~game_over

\* p and q are neighbours on the grid
Adjacent(p, q) ==
  \/ p[1] = q[1] /\ (p[2] - q[2]) \in {-CELL_SIZE, CELL_SIZE}
  \/ p[2] = q[2] /\ (p[1] - q[1]) \in {-CELL_SIZE, CELL_SIZE}

\* C18: while Playing all snake cells are on the board and pairwise distinct;
\* consecutive cells are always grid neighbours; in GameOver only the head
\* may be off the board or on another cell of the body.
C18_BodyWellFormed ==
  /\ \A i \in 1..(Len(body) - 1) : Adjacent(body[i], body[i + 1])
  /\ \A i \in 2..Len(body) : OnBoard(body[i])
  /\ \A i, j \in 2..Len(body) : i # j => body[i] # body[j]
  /\ ~game_over => /\ OnBoard(body[1])
                   /\ \A i \in 2..Len(body) : body[i] # body[1]
  /\ (game_over /\ pc # "reset_spawn") => Hit(body)

\* a Playing snake of five cells that bends
C18_Witness ==
  /\ pc = "draw" /\ ~game_over /\ Len(body) = 5
  /\ body[1][1] # body[3][1] /\ body[1][2] # body[3][2]

\* the larger of the board's two dimensions, in cells
MaxDim == IF Cols > Rows THEN Cols ELSE Rows

\* C19: without steering the game does not stay Playing: once the snake has
\* moved max(columns, rows) times since the last directional key or restart,
\* the game is over.
C19_GameOverWithinBoard == idle_ticks >= MaxDim => game_over

\* the snake turned in the first column and crossed the whole board
C19_Witness ==
  /\ pc = "draw" /\ game_over /\ idle_ticks = MaxDim
  /\ last_heading = RIGHT /\ body[1][1] = WINDOW_WIDTH

TypeOK ==
  /\ body \in Seq(Int \X Int)
  /\ Len(body) >= 1
  /\ direction \in Directions
  /\ grow \in BOOLEAN
  /\ position \in Samples
  /\ score \in 0..MaxScore
  /\ game_over \in BOOLEAN
  /\ running \in BOOLEAN
  /\ pc \in {"handle_events", "reset_spawn", "update", "update_spawn", "draw", "exit"}
  /\ nevents \in 0..MaxEvents
  /\ event \in Keys \cup {"OTHER", NoEvent}
  /\ last_heading \in Directions \cup {NoMove}
  /\ idle_ticks \in Nat
====
